---- MODULE Spec2Model ----
(***************************************************************************)
(* Model of the BayHunter2025 operator glue:                               *)
(*   - my_stuff/utils.py   PolygonGeoHelper (point_in_polygon, filter_dict,*)
(*                         _smart_extent)                                  *)
(*   - my_stuff/InvDef.py  RunInv (__init__, run_inv, invert,              *)
(*                         save_distribution)                              *)
(* Coordinates are integers (grid units); the batch model uses thousandths *)
(* of a degree so that the 2-decimal formatting of a point is a rounding.  *)
(***************************************************************************)
EXTENDS Integers, Sequences, FiniteSets, TLC

VARIABLES
    trapezoid,        \* argument of run_inv: a polygon, or <<>> for None
    raw_dsp,          \* the pickled dispersion dataset at dsp_path
    raw_phv,          \* the pickled phase-velocity dataset at phv_path
    checkpoint_path,  \* "none" | "progres" | "other": RunInv's checkpoint_path
    files,            \* the pickle files on disk, by path
    run,              \* number of RunInv constructions so far
    pc,               \* position of the control thread
    check_point,      \* self.check_point
    df_dsp,           \* self.df_dsp
    df_phv,           \* self.df_phv
    idx,              \* number of zip pairs taken by the loop of invert
    progress,         \* the local list progress of invert
    initparams,       \* the per-point fields of self.initparams
    live,             \* per-iteration objects are held (targets, buffers, optimizer)
    workspaces,       \* per-point directories that exist under results_dir
    outputs,          \* <<point_name, key>>: whose rows <point_name>_m.txt holds
    artifacts,        \* point names whose workspace holds files of the engine
    pending,          \* the exception travelling through the finally block
    error,            \* the exception that ended the run
    invoked,          \* history: keys passed to mp_inversion in this run
    seenInCheckpoint, \* history: keys found in the checkpoint file at a run's start
    faults,           \* history: the kinds of failure that have happened
    lastCommit,       \* history: what the last completed to_pickle wrote
    persisted,        \* history: keys loaded at start or committed, this run
    commits,          \* history: completed to_pickle calls of this run
    unpaired,         \* history: keys left over when zip stopped
    succeeded,        \* history: keys whose mp_inversion and save_distribution returned
    suppressed,       \* history: save_plots raised in this iteration and was suppressed
    parg,             \* geometry check: the polygon passed to PolygonGeoHelper(...)
    helper,           \* geometry check: "none" | "ok" | "raised", the construction
    poly,             \* geometry check: the polygon of the helper
    probe,            \* geometry check: the tested point
    answer,           \* geometry check: what point_in_polygon returned
    fdata,            \* filter check: the input mapping
    fskip,            \* filter check: skip_invalid
    fonce,            \* filter check: filter_dict(data)
    ftwice,           \* filter check: filter_dict(filter_dict(data))
    elons,            \* extent check: the longitudes
    elats,            \* extent check: the latitudes
    epad,             \* extent check: pad
    epivot,           \* extent check: central_longitude
    extent,           \* extent check: what _smart_extent returned
    pcfgs,            \* plotter: sorted(configs), the config files under root
    pdfs,             \* plotter: the PDF files that exist in the output directory
    poverwrite,       \* plotter: args.overwrite of the current invocation
    pdry,             \* plotter: args.dry_run of the current invocation
    ppc,              \* plotter: "idle" | "loop" | "done", position of main
    prun,             \* plotter: number of invocations of main so far
    plog,             \* history: the process_config calls of this invocation
    pprev             \* history: the process_config calls of the invocation before

orchVars == <<trapezoid, raw_dsp, raw_phv, checkpoint_path, files, run, pc,
              check_point, df_dsp, df_phv, idx, progress, initparams, live,
              workspaces, outputs, pending, error, invoked, seenInCheckpoint,
              faults, lastCommit, persisted, commits, unpaired, artifacts,
              succeeded, suppressed>>
geomVars == <<parg, helper, poly, probe, answer>>
filterVars == <<fdata, fskip, fonce, ftwice>>
extentVars == <<elons, elats, epad, epivot, extent>>
plotVars == <<pcfgs, pdfs, poverwrite, pdry, ppc, prun, plog, pprev>>
vars == <<orchVars, geomVars, filterVars, extentVars, plotVars>>

----
\* Bounds of the model.
NKeys == 2
MaxRuns == 3

----
\* Helpers.
Range(s) == {s[i] : i \in DOMAIN s}

Min(a, b) == IF a <= b THEN a ELSE b

Abs(x) == IF x < 0 THEN -x ELSE x

----
\* Geometry: PolygonGeoHelper (utils.py).

\* eps = 1e-12 of _point_on_segment: on integer coordinates abs(cross) > eps
\* is abs(cross) > 0 and dot <= eps is dot <= 0.
Eps == 0

\* _point_on_segment
PointOnSegment(px, py, x1, y1, x2, y2) ==
    LET cross == (py - y1) * (x2 - x1) - (px - x1) * (y2 - y1)
        dot   == (px - x1) * (px - x2) + (py - y1) * (py - y2)
    IN  IF Abs(cross) > Eps THEN FALSE ELSE dot <= Eps

\* x_at_y >= lon, where x_at_y = x1 + (x2 - x1) * (lat - y1) / (y2 - y1):
\* the quotient is compared exactly, both sides multiplied by y2 - y1 (# 0).
XAtYGeLon(lon, lat, x1, y1, x2, y2) ==
    LET d   == y2 - y1
        num == x1 * d + (x2 - x1) * (lat - y1)
    IN  IF d > 0 THEN num >= lon * d ELSE num <= lon * d

\* The classic slip: an edge counted when lat touches either endpoint.
RayTogglesInclusive(lon, lat, x1, y1, x2, y2) ==
    /\ y1 # y2
    /\ Min(y1, y2) <= lat
    /\ lat <= (IF y1 >= y2 THEN y1 ELSE y2)
    /\ XAtYGeLon(lon, lat, x1, y1, x2, y2)

\* The ray-casting test of one edge (point_in_polygon, the second if).
RayToggles(lon, lat, x1, y1, x2, y2) ==
    /\ (y1 > lat) # (y2 > lat)
    /\ XAtYGeLon(lon, lat, x1, y1, x2, y2)

\* The loop of point_in_polygon from edge i (1-based) with the parity so far.
RECURSIVE PipLoop(_, _, _, _, _)
PipLoop(polygon, lon, lat, i, inside) ==
    IF i > Len(polygon) THEN inside
    ELSE LET a == polygon[i]
             b == polygon[(i % Len(polygon)) + 1]
         IN  IF PointOnSegment(lon, lat, a[1], a[2], b[1], b[2]) THEN TRUE
             ELSE PipLoop(polygon, lon, lat, i + 1,
                          IF RayToggles(lon, lat, a[1], a[2], b[1], b[2])
                          THEN ~inside ELSE inside)

\* __init__, line 21: the least number of vertices.
MinVertices == 3

\* A check that lets a two-vertex polygon through.
HelperRaisesBelowTwo(polygon) == Len(polygon) < MinVertices - 1

\* __init__, lines 21-22: len(polygon) < 3 raises ValueError.
HelperRaises(polygon) == Len(polygon) < MinVertices

\* point_in_polygon
PointInPolygon(polygon, lon, lat) == PipLoop(polygon, lon, lat, 1, FALSE)

----
\* Data filtering: PolygonGeoHelper.filter_dict (utils.py).
\* A mapping is the sequence of its items [k, vals] in insertion order, keys
\* distinct. A field of vals is a tagged value: "num" a number, "numstr" a
\* string float() accepts, "str" a string it rejects, "arr" a curve array.

\* lon_index and lat_index (0-based, as in the source).
LonIndex == 2
LatIndex == 3

Num(x) == [t |-> "num", v |-> x]

\* float(x) returns for a number and for a numeric string, raises otherwise.
FloatOk(x) == x.t \in {"num", "numstr"}

Float(x) == x.v

\* The try block of filter_dict: indexing and both conversions succeed.
CoordsOk(vals) ==
    /\ Len(vals) > LonIndex
    /\ Len(vals) > LatIndex
    /\ FloatOk(vals[LonIndex + 1])
    /\ FloatOk(vals[LatIndex + 1])

\* A slip that writes the converted pair back in (lat, lon) order.
StoredValsSwapped(vals) ==
    [vals EXCEPT ![LonIndex + 1] = vals[LatIndex + 1],
                 ![LatIndex + 1] = vals[LonIndex + 1]]

\* A slip that stores the converted coordinates in place of the fields read.
StoredValsConverted(vals) ==
    [vals EXCEPT ![LonIndex + 1] = Num(Float(vals[LonIndex + 1])),
                 ![LatIndex + 1] = Num(Float(vals[LatIndex + 1]))]

\* out[k] = vals: the record is stored as it is.
StoredVals(vals) == vals

\* The loop of filter_dict from item i, with the mapping built so far.
RECURSIVE FilterLoop(_, _, _, _, _)
FilterLoop(polygon, data, skip_invalid, i, out) ==
    IF i > Len(data) THEN [raised |-> FALSE, out |-> out]
    ELSE LET vals == data[i].vals IN
         IF ~CoordsOk(vals)
         THEN IF skip_invalid
              THEN FilterLoop(polygon, data, skip_invalid, i + 1, out)
              ELSE [raised |-> TRUE, out |-> <<>>]
         ELSE IF PointInPolygon(polygon, Float(vals[LonIndex + 1]),
                                Float(vals[LatIndex + 1]))
              THEN FilterLoop(polygon, data, skip_invalid, i + 1,
                              Append(out, [k |-> data[i].k,
                                           vals |-> StoredVals(vals)]))
              ELSE FilterLoop(polygon, data, skip_invalid, i + 1, out)

\* A slip that ignores skip_invalid and always drops what it cannot read.
FilterDictAlwaysSkip(polygon, data, skip_invalid) ==
    FilterLoop(polygon, data, TRUE, 1, <<>>)

\* filter_dict
FilterDict(polygon, data, skip_invalid) ==
    FilterLoop(polygon, data, skip_invalid, 1, <<>>)

----
\* Extent: PolygonGeoHelper._smart_extent (utils.py), in whole degrees.

SeqMin(s) == CHOOSE x \in Range(s) : \A y \in Range(s) : x <= y

SeqMax(s) == CHOOSE x \in Range(s) : \A y \in Range(s) : x >= y

\* ((lon - pivot + 540) % 360) - 180
ShiftLon(lon, pivot) == ((lon - pivot + 540) % 360) - 180

\* ((s + pivot + 540) % 360) - 180
UnshiftLon(s, pivot) == ((s + pivot + 540) % 360) - 180

\* _smart_extent
SmartExtent(lons, lats, pad, central_longitude) ==
    LET min_lon0 == SeqMin(lons)
        max_lon0 == SeqMax(lons)
        min_lat  == SeqMin(lats)
        max_lat  == SeqMax(lats)
        span     == max_lon0 - min_lon0
        shifted  == [i \in DOMAIN lons |-> ShiftLon(lons[i], central_longitude)]
        min_lon  == IF span > 180
                    THEN UnshiftLon(SeqMin(shifted), central_longitude)
                    ELSE min_lon0
        max_lon  == IF span > 180
                    THEN UnshiftLon(SeqMax(shifted), central_longitude)
                    ELSE max_lon0
    IN  <<min_lon - pad, max_lon + pad, min_lat - pad, max_lat + pad>>

----
\* Batch run: RunInv (InvDef.py). Longitudes and latitudes of the batch
\* datasets are in thousandths of a degree.

\* "{:.2f}".format(float(x)): the number of hundredths nearest to x (the
\* datasets below hold no value that ends in 5 thousandths, so no tie).
Fmt2(x) == (x + 5) \div 10

\* A name made of the coordinates at full precision.
PointNameExact(vals) == <<Float(vals[4]), Float(vals[3])>>

\* point_name = f"{lat}_{lon}" (lines 92, 93, 104)
PointName(vals) == <<Fmt2(Float(vals[4])), Fmt2(Float(vals[3]))>>

Arr == [t |-> "arr", v |-> 0]

Rec(key, pt) == [k |-> key, vals |-> <<Arr, Arr, Num(pt[1]), Num(pt[2])>>]

\* The region of the runs that configure one, and the points of the datasets:
\* two inside it that format to the same name, and one outside it.
Square == << <<0, 0>>, <<4000, 0>>, <<4000, 4000>>, <<0, 4000>> >>
\* A trapezoid argument of two vertices.
Segment == << <<0, 0>>, <<4000, 4000>> >>
PtIn == <<2000, 2000>>
PtIn2 == <<2004, 2001>>
PtOut == <<5000, 5000>>
OrchPts == {PtIn, PtIn2, PtOut}

Paths == {"progres", "other"}

AbsentFile == [st |-> "absent", keys |-> <<>>]

\* A file that exists and is not a whole pickle.
UnreadableFile == [st |-> "partial", keys |-> <<>>]

NoError == [kind |-> "none", key |-> 0]

NoPoint == <<>>

\* The phase-velocity datasets paired with dispersion dataset d: the same
\* items, the first two items in the other order, the last item missing, one
\* item more, and the first item at another place.
PhvVariants(d) ==
    {d}
    \cup (IF Len(d) >= 2
          THEN {[i \in DOMAIN d |-> IF i = 1 THEN d[2] ELSE IF i = 2 THEN d[1] ELSE d[i]]}
          ELSE {})
    \cup {SubSeq(d, 1, Len(d) - 1)}
    \cup {Append(d, Rec(Len(d) + 1, PtIn))}
    \cup {[d EXCEPT ![1] = Rec(d[1].k, IF d[1].vals[3].v = PtOut[1] THEN PtIn ELSE PtOut)]}

\* __init__, lines 60-63: the checkpoint is read when a path is given and
\* the file exists; read_pickle raises on a file that is not a whole pickle.
LoadCheckpoint(path, fs) ==
    IF path # "none" /\ fs[path].st # "absent"
    THEN IF fs[path].st = "ok"
         THEN [raised |-> FALSE, keys |-> fs[path].keys]
         ELSE [raised |-> TRUE, keys |-> <<>>]
    ELSE [raised |-> FALSE, keys |-> <<>>]

\* A run that never skips.
AlreadyDoneNever(key, cp) == FALSE

\* line 95: dsp_k in self.check_point
AlreadyDone(key, cp) == key \in Range(cp)

\* invert, lines 82-85: the optional spatial filter, applied to one dataset.
Filtered(polygon, data) ==
    IF polygon # <<>> THEN FilterDict(polygon, data, TRUE).out ELSE data

\* zip(self.df_dsp.items(), self.df_phv.items()) stops at the shorter one.
ZipLen == Min(Len(df_dsp), Len(df_phv))

\* The keys the loop walks: dsp_k of each zip pair.
JoinedKeys(dsp, phv) == [i \in 1..Min(Len(dsp), Len(phv)) |-> dsp[i].k]

\* The keys zip leaves unpaired.
Leftover(dsp, phv) ==
    {dsp[i].k : i \in (Min(Len(dsp), Len(phv)) + 1)..Len(dsp)}
    \cup {phv[i].k : i \in (Min(Len(dsp), Len(phv)) + 1)..Len(phv)}

geomIdle ==
    /\ parg = <<>> /\ helper = "none" /\ poly = <<>> /\ probe = <<>>
    /\ answer = FALSE
filterIdle == /\ fdata = <<>> /\ fskip = TRUE /\ fonce = <<>> /\ ftwice = <<>>
plotIdle ==
    /\ pcfgs = <<>> /\ pdfs = {} /\ poverwrite = FALSE /\ pdry = FALSE
    /\ ppc = "idle" /\ prun = 0 /\ plog = <<>> /\ pprev = <<>>
extentIdle == /\ elons = <<>> /\ elats = <<>> /\ epad = 0 /\ epivot = 0 /\ extent = <<>>

Init ==
    /\ trapezoid \in {<<>>, Square, Segment}
    /\ \E n \in 1..NKeys : \E pts \in [1..n -> OrchPts] :
          /\ raw_dsp = [i \in 1..n |-> Rec(i, pts[i])]
          /\ raw_phv \in PhvVariants([i \in 1..n |-> Rec(i, pts[i])])
    /\ checkpoint_path \in {"none", "progres", "other"}
    /\ \/ files = [p \in Paths |-> AbsentFile]
       \/ /\ checkpoint_path = "other"
          /\ files = [p \in Paths |-> IF p = "other" THEN UnreadableFile
                                      ELSE AbsentFile]
    /\ run = 0
    /\ pc = "NEW"
    /\ check_point = <<>>
    /\ df_dsp = <<>>
    /\ df_phv = <<>>
    /\ idx = 0
    /\ progress = <<>>
    /\ initparams = [savepath |-> NoPoint, station |-> NoPoint]
    /\ live = FALSE
    /\ workspaces = {}
    /\ outputs = {}
    /\ pending = NoError
    /\ error = NoError
    /\ invoked = <<>>
    /\ seenInCheckpoint = {}
    /\ faults = {}
    /\ lastCommit = AbsentFile
    /\ persisted = {}
    /\ commits = 0
    /\ unpaired = {}
    /\ artifacts = {}
    /\ succeeded = {}
    /\ suppressed = FALSE
    /\ geomIdle /\ filterIdle /\ extentIdle /\ plotIdle

Stopped == pc \in {"NEW", "ALL_DONE", "ABORTED", "CRASHED", "LOAD_FAILED"}

\* RunInv(...): a new process constructs the object (lines 44-63).
Construct ==
    /\ Stopped
    /\ run < MaxRuns
    /\ run' = run + 1
    /\ LET ld == LoadCheckpoint(checkpoint_path, files) IN
          /\ check_point' = ld.keys
          /\ pc' = IF ld.raised THEN "LOAD_FAILED" ELSE "INIT"
          /\ faults' = IF ld.raised THEN faults \cup {"load"} ELSE faults
          /\ error' = IF ld.raised THEN [kind |-> "load", key |-> 0] ELSE NoError
          /\ seenInCheckpoint' = seenInCheckpoint \cup Range(ld.keys)
          /\ persisted' = Range(ld.keys)
    /\ initparams' = [savepath |-> NoPoint, station |-> NoPoint]
    /\ live' = FALSE
    /\ pending' = NoError
    /\ invoked' = <<>>
    /\ lastCommit' = files["progres"]
    /\ commits' = 0
    /\ unpaired' = {}
    /\ df_dsp' = <<>> /\ df_phv' = <<>> /\ idx' = 0 /\ progress' = <<>>
    /\ UNCHANGED <<trapezoid, raw_dsp, raw_phv, checkpoint_path, files,
                   workspaces, outputs>>
    /\ suppressed' = FALSE
    /\ UNCHANGED <<artifacts, succeeded>>
    /\ UNCHANGED <<geomVars, filterVars, extentVars, plotVars>>

\* The pair the loop is at.
CurDsp == df_dsp[idx]
CurPhv == df_phv[idx]

\* An exception leaves invert and run_inv (its finally, lines 74-78).
Abort(e) ==
    /\ pc' = "ABORTED"
    /\ error' = e
    /\ faults' = faults \cup {e.kind}
    /\ unpaired' = unpaired
    /\ df_dsp' = <<>>
    /\ df_phv' = <<>>

\* run_inv, lines 70-71, and invert, lines 82-88; PolygonGeoHelper(trapezoid)
\* at line 83 raises for a trapezoid of one or two vertices.
RunInvStart ==
    /\ pc = "INIT"
    /\ progress' = <<>>
    /\ idx' = 0
    /\ IF trapezoid # <<>> /\ HelperRaises(trapezoid)
       THEN Abort([kind |-> "geometry", key |-> 0])
       ELSE /\ df_dsp' = Filtered(trapezoid, raw_dsp)
            /\ df_phv' = Filtered(trapezoid, raw_phv)
            /\ pc' = "ITERATE"
            /\ UNCHANGED <<error, faults, unpaired>>
    /\ UNCHANGED <<trapezoid, raw_dsp, raw_phv, checkpoint_path, files, run,
                   check_point, initparams, live, workspaces, outputs, pending,
                   invoked, seenInCheckpoint, lastCommit, persisted, commits>>
    /\ UNCHANGED <<artifacts, succeeded, suppressed>>
    /\ UNCHANGED <<geomVars, filterVars, extentVars, plotVars>>

\* The zip is exhausted: invert returns, run_inv drops the datasets.
LoopEnd ==
    /\ pc = "ITERATE"
    /\ idx = ZipLen
    /\ pc' = "ALL_DONE"
    /\ unpaired' = Leftover(df_dsp, df_phv)
    /\ df_dsp' = <<>>
    /\ df_phv' = <<>>
    /\ UNCHANGED <<trapezoid, raw_dsp, raw_phv, checkpoint_path, files, run,
                   check_point, idx, progress, initparams, live, workspaces,
                   outputs, pending, error, invoked, seenInCheckpoint, faults,
                   lastCommit, persisted, commits>>
    /\ UNCHANGED <<artifacts, succeeded, suppressed>>
    /\ UNCHANGED <<geomVars, filterVars, extentVars, plotVars>>

\* A loop that records the key before it looks at the checkpoint.
SkipRecords ==
    /\ pc = "ITERATE"
    /\ idx < ZipLen
    /\ CoordsOk(df_dsp[idx + 1].vals)
    /\ AlreadyDone(df_dsp[idx + 1].k, check_point)
    /\ idx' = idx + 1
    /\ progress' = Append(progress, df_dsp[idx + 1].k)
    /\ UNCHANGED <<trapezoid, raw_dsp, raw_phv, checkpoint_path, files, run,
                   pc, check_point, df_dsp, df_phv, initparams, live,
                   workspaces, outputs, pending, error, invoked,
                   seenInCheckpoint, faults, lastCommit, persisted, commits,
                   unpaired>>
    /\ UNCHANGED <<artifacts, succeeded, suppressed>>
    /\ UNCHANGED <<geomVars, filterVars, extentVars, plotVars>>

\* lines 91-97: the next pair is taken and its key is in the checkpoint.
Skip ==
    /\ pc = "ITERATE"
    /\ idx < ZipLen
    /\ CoordsOk(df_dsp[idx + 1].vals)
    /\ AlreadyDone(df_dsp[idx + 1].k, check_point)
    /\ idx' = idx + 1
    /\ UNCHANGED <<trapezoid, raw_dsp, raw_phv, checkpoint_path, files, run,
                   pc, check_point, df_dsp, df_phv, progress, initparams, live,
                   workspaces, outputs, pending, error, invoked,
                   seenInCheckpoint, faults, lastCommit, persisted, commits,
                   unpaired>>
    /\ UNCHANGED <<artifacts, succeeded, suppressed>>
    /\ UNCHANGED <<geomVars, filterVars, extentVars, plotVars>>

\* lines 91-102: the next pair is taken, its key is not in the checkpoint
\* and is appended to progress; float() of a bad coordinate raises first.
Start ==
    /\ pc = "ITERATE"
    /\ idx < ZipLen
    /\ idx' = idx + 1
    /\ IF ~CoordsOk(df_dsp[idx + 1].vals)
       THEN /\ Abort([kind |-> "format", key |-> df_dsp[idx + 1].k])
            /\ UNCHANGED progress
       ELSE /\ ~AlreadyDone(df_dsp[idx + 1].k, check_point)
            /\ progress' = Append(progress, df_dsp[idx + 1].k)
            /\ pc' = "PREPARE"
            /\ UNCHANGED <<df_dsp, df_phv, error, faults, unpaired>>
    /\ UNCHANGED <<trapezoid, raw_dsp, raw_phv, checkpoint_path, files, run,
                   check_point, initparams, live, workspaces, outputs, pending,
                   invoked, seenInCheckpoint, lastCommit, persisted, commits>>
    /\ UNCHANGED <<artifacts, succeeded, suppressed>>
    /\ UNCHANGED <<geomVars, filterVars, extentVars, plotVars>>

\* lines 104-121: the per-point fields are stored into self.initparams, the
\* workspace is created, the curve buffers and targets are built.
Prepare ==
    /\ pc = "PREPARE"
    /\ initparams' = [savepath |-> PointName(CurDsp.vals),
                      station  |-> PointName(CurDsp.vals)]
    /\ workspaces' = workspaces \cup {PointName(CurDsp.vals)}
    /\ live' = TRUE
    /\ pc' = "INVOKE"
    /\ UNCHANGED <<trapezoid, raw_dsp, raw_phv, checkpoint_path, files, run,
                   check_point, df_dsp, df_phv, idx, progress, outputs,
                   pending, error, invoked, seenInCheckpoint, faults,
                   lastCommit, persisted, commits, unpaired>>
    /\ UNCHANGED <<artifacts, succeeded, suppressed>>
    /\ UNCHANGED <<geomVars, filterVars, extentVars, plotVars>>

\* lines 104-121 raise (os.makedirs at 108, or the arrays and targets at
\* 114-121): no try encloses them, the exception leaves invert at once.
PrepareFail ==
    /\ pc = "PREPARE"
    /\ initparams' = [savepath |-> PointName(CurDsp.vals),
                      station  |-> PointName(CurDsp.vals)]
    /\ \E made \in BOOLEAN :
          /\ workspaces' = IF made THEN workspaces \cup {PointName(CurDsp.vals)}
                           ELSE workspaces
          /\ live' = made
    /\ Abort([kind |-> "prepare", key |-> CurDsp.k])
    /\ UNCHANGED <<trapezoid, raw_dsp, raw_phv, checkpoint_path, files, run,
                   check_point, idx, progress, outputs, pending, invoked,
                   seenInCheckpoint, lastCommit, persisted, commits>>
    /\ UNCHANGED <<artifacts, succeeded, suppressed>>
    /\ UNCHANGED <<geomVars, filterVars, extentVars, plotVars>>

\* lines 125-128: MCMC_Optimizer(...) and mp_inversion return; the chains
\* have written their files into the workspace (savepath/data).
Invoke ==
    /\ pc = "INVOKE"
    /\ invoked' = Append(invoked, CurDsp.k)
    /\ artifacts' = artifacts \cup {initparams.savepath}
    /\ pc' = "POSTPROCESS"
    /\ UNCHANGED <<trapezoid, raw_dsp, raw_phv, checkpoint_path, files, run,
                   check_point, df_dsp, df_phv, idx, progress, initparams,
                   live, workspaces, outputs, pending, error, seenInCheckpoint,
                   faults, lastCommit, persisted, commits, unpaired>>
    /\ UNCHANGED <<succeeded, suppressed>>
    /\ UNCHANGED <<geomVars, filterVars, extentVars, plotVars>>

\* lines 125-128 raise: control goes to the finally block (line 137); the
\* chains may or may not have written files by then.
InvokeFail ==
    /\ pc = "INVOKE"
    /\ invoked' = Append(invoked, CurDsp.k)
    /\ pending' = [kind |-> "engine", key |-> CurDsp.k]
    /\ artifacts' \in {artifacts, artifacts \cup {initparams.savepath}}
    /\ pc' = "RELEASE"
    /\ UNCHANGED <<trapezoid, raw_dsp, raw_phv, checkpoint_path, files, run,
                   check_point, df_dsp, df_phv, idx, progress, initparams,
                   live, workspaces, outputs, error, seenInCheckpoint, faults,
                   lastCommit, persisted, commits, unpaired>>
    /\ UNCHANGED <<succeeded, suppressed>>
    /\ UNCHANGED <<geomVars, filterVars, extentVars, plotVars>>

\* save_distribution where an exception of save_plots leaves the function.
PostprocessPlotRaises ==
    /\ pc = "POSTPROCESS"
    /\ \E raised \in BOOLEAN :
          IF raised
          THEN /\ pending' = [kind |-> "postprocess", key |-> CurDsp.k]
               /\ pc' = "RELEASE"
               /\ suppressed' = TRUE
               /\ UNCHANGED <<outputs, succeeded>>
          ELSE /\ outputs' = {o \in outputs : o[1] # initparams.station}
                             \cup {<<initparams.station, CurDsp.k>>}
               /\ succeeded' = succeeded \cup {CurDsp.k}
               /\ pc' = "CHECKPOINT"
               /\ UNCHANGED <<pending, suppressed>>
    /\ UNCHANGED <<trapezoid, raw_dsp, raw_phv, checkpoint_path, files, run,
                   check_point, df_dsp, df_phv, idx, progress, initparams,
                   live, workspaces, error, invoked, seenInCheckpoint,
                   faults, lastCommit, persisted, commits, unpaired>>
    /\ UNCHANGED artifacts
    /\ UNCHANGED <<geomVars, filterVars, extentVars, plotVars>>

\* lines 129-134: save_distribution returns, <name>_m.txt is written (197);
\* save_plots may have raised inside suppress(Exception) (159-160).
Postprocess ==
    /\ pc = "POSTPROCESS"
    /\ suppressed' \in BOOLEAN
    /\ outputs' = {o \in outputs : o[1] # initparams.station}
                  \cup {<<initparams.station, CurDsp.k>>}
    /\ succeeded' = succeeded \cup {CurDsp.k}
    /\ pc' = "CHECKPOINT"
    /\ UNCHANGED <<trapezoid, raw_dsp, raw_phv, checkpoint_path, files, run,
                   check_point, df_dsp, df_phv, idx, progress, initparams,
                   live, workspaces, pending, error, invoked, seenInCheckpoint,
                   faults, lastCommit, persisted, commits, unpaired>>
    /\ UNCHANGED artifacts
    /\ UNCHANGED <<geomVars, filterVars, extentVars, plotVars>>

\* A failure handler that clears the point's workspace.
PostprocessFailCleanup ==
    /\ pc = "POSTPROCESS"
    /\ pending' = [kind |-> "postprocess", key |-> CurDsp.k]
    /\ artifacts' = artifacts \ {initparams.savepath}
    /\ pc' = "RELEASE"
    /\ UNCHANGED <<trapezoid, raw_dsp, raw_phv, checkpoint_path, files, run,
                   check_point, df_dsp, df_phv, idx, progress, initparams,
                   live, workspaces, outputs, error, invoked, seenInCheckpoint,
                   faults, lastCommit, persisted, commits, unpaired, succeeded,
                   suppressed>>
    /\ UNCHANGED <<geomVars, filterVars, extentVars, plotVars>>

\* lines 129-134 raise (save_final_distribution, np.load of c_models.npy
\* at 177, get_singlemodels): nothing is removed, control goes to the
\* finally block.
PostprocessFail ==
    /\ pc = "POSTPROCESS"
    /\ pending' = [kind |-> "postprocess", key |-> CurDsp.k]
    /\ pc' = "RELEASE"
    /\ UNCHANGED <<trapezoid, raw_dsp, raw_phv, checkpoint_path, files, run,
                   check_point, df_dsp, df_phv, idx, progress, initparams,
                   live, workspaces, outputs, error, invoked, seenInCheckpoint,
                   faults, lastCommit, persisted, commits, unpaired>>
    /\ UNCHANGED <<artifacts, succeeded, suppressed>>
    /\ UNCHANGED <<geomVars, filterVars, extentVars, plotVars>>

\* line 136: pd.to_pickle(progress, progress_path) writes the local list.
CommitContent == progress

\* line 136, first half: to_pickle opens progress_path for writing, which
\* truncates the file in place (progress_path is results_dir/progres.pkl,
\* line 88, whatever checkpoint_path is).
CommitBegin ==
    /\ pc = "CHECKPOINT"
    /\ files' = [files EXCEPT !["progres"] = UnreadableFile]
    /\ pc' = "WRITING"
    /\ UNCHANGED <<trapezoid, raw_dsp, raw_phv, checkpoint_path, run,
                   check_point, df_dsp, df_phv, idx, progress, initparams,
                   live, workspaces, outputs, pending, error, invoked,
                   seenInCheckpoint, faults, lastCommit, persisted, commits,
                   unpaired>>
    /\ UNCHANGED <<artifacts, succeeded, suppressed>>
    /\ UNCHANGED <<geomVars, filterVars, extentVars, plotVars>>

\* line 136, second half: the pickle is written whole and the file closed.
CommitEnd ==
    /\ pc = "WRITING"
    /\ files' = [files EXCEPT !["progres"] = [st |-> "ok", keys |-> CommitContent]]
    /\ lastCommit' = [st |-> "ok", keys |-> CommitContent]
    /\ persisted' = persisted \cup Range(CommitContent)
    /\ commits' = commits + 1
    /\ pc' = "RELEASE"
    /\ UNCHANGED <<trapezoid, raw_dsp, raw_phv, checkpoint_path, run,
                   check_point, df_dsp, df_phv, idx, progress, initparams,
                   live, workspaces, outputs, pending, error, invoked,
                   seenInCheckpoint, faults, unpaired>>
    /\ UNCHANGED <<artifacts, succeeded, suppressed>>
    /\ UNCHANGED <<geomVars, filterVars, extentVars, plotVars>>

\* The process dies while to_pickle is writing.
Crash ==
    /\ pc = "WRITING"
    /\ pc' = "CRASHED"
    /\ faults' = faults \cup {"crash"}
    /\ error' = [kind |-> "crash", key |-> CurDsp.k]
    /\ df_dsp' = <<>>
    /\ df_phv' = <<>>
    /\ UNCHANGED <<trapezoid, raw_dsp, raw_phv, checkpoint_path, files, run,
                   check_point, idx, progress, initparams, live, workspaces,
                   outputs, pending, invoked, seenInCheckpoint, lastCommit,
                   persisted, commits, unpaired>>
    /\ UNCHANGED <<artifacts, succeeded, suppressed>>
    /\ UNCHANGED <<geomVars, filterVars, extentVars, plotVars>>

\* A finally block followed by a handler that swallows the exception and
\* lets the loop go on.
ReleaseSwallow ==
    /\ pc = "RELEASE"
    /\ live' = FALSE
    /\ pending' = NoError
    /\ pc' = "ITERATE"
    /\ UNCHANGED <<df_dsp, df_phv, error, faults, unpaired>>
    /\ UNCHANGED <<trapezoid, raw_dsp, raw_phv, checkpoint_path, files, run,
                   check_point, idx, progress, initparams, workspaces, outputs,
                   invoked, seenInCheckpoint, lastCommit, persisted, commits>>
    /\ suppressed' = FALSE
    /\ UNCHANGED <<artifacts, succeeded>>
    /\ UNCHANGED <<geomVars, filterVars, extentVars, plotVars>>

\* lines 137-150: the finally block drops the per-iteration objects; a
\* pending exception then propagates, otherwise the loop goes on.
Release ==
    /\ pc = "RELEASE"
    /\ live' = FALSE
    /\ pending' = NoError
    /\ IF pending # NoError
       THEN Abort(pending)
       ELSE /\ pc' = "ITERATE"
            /\ UNCHANGED <<df_dsp, df_phv, error, faults, unpaired>>
    /\ UNCHANGED <<trapezoid, raw_dsp, raw_phv, checkpoint_path, files, run,
                   check_point, idx, progress, initparams, workspaces, outputs,
                   invoked, seenInCheckpoint, lastCommit, persisted, commits>>
    /\ suppressed' = FALSE
    /\ UNCHANGED <<artifacts, succeeded>>
    /\ UNCHANGED <<geomVars, filterVars, extentVars, plotVars>>

Next ==
    \/ Construct
    \/ RunInvStart
    \/ LoopEnd
    \/ Skip
    \/ Start
    \/ Prepare
    \/ PrepareFail
    \/ Invoke
    \/ InvokeFail
    \/ Postprocess
    \/ PostprocessFail
    \/ CommitBegin
    \/ CommitEnd
    \/ Crash
    \/ Release

Spec == Init /\ [][Next]_vars

----
\* Properties of the batch run.

InIteration == pc \in {"PREPARE", "INVOKE", "POSTPROCESS", "CHECKPOINT",
                       "WRITING", "RELEASE"}

\* Runs so far have ended only by completing or by an engine or postprocess
\* error.
OnlyEngineFaults == faults \subseteq {"engine", "postprocess"}

\* The keys the loop of this run walks, from the datasets on disk.
RunKeys == JoinedKeys(Filtered(trapezoid, raw_dsp), Filtered(trapezoid, raw_phv))

\* The keys of a sequence of keys that come after key.
KeysAfter(keys, key) ==
    {keys[j] : j \in {j \in DOMAIN keys : \E i \in DOMAIN keys : i < j /\ keys[i] = key}}

\* C1: with checkpoint_path at results_dir/progres.pkl and runs that end only
\* by completing or by an engine or postprocess error, a key that was in the
\* checkpoint file at the start of some run is not passed to the engine in
\* that run or in a later one.
C1_NeverReprocessed ==
    (checkpoint_path = "progres" /\ OnlyEngineFaults)
        => \A i \in DOMAIN invoked : invoked[i] \notin seenInCheckpoint

\* C2: once invert has committed, the persisted checkpoint holds every key
\* persisted before for the run, the keys loaded at its start included.
C2_CheckpointOnlyGrows ==
    (commits > 0 /\ files["progres"].st = "ok")
        => persisted \subseteq Range(files["progres"].keys)

\* C3: a run in which nothing fails invokes the engine exactly once for each
\* key of the joined key sequence that is not in the loaded checkpoint, in
\* dataset order, and for no key that is in it.
C3_ProcessesExactlyMissing ==
    pc = "ALL_DONE"
        => invoked = SelectSeq(RunKeys, LAMBDA key : key \notin Range(check_point))

\* C3 witness: keys <<1, 2>> with the loaded checkpoint <<1>>: the run
\* skipped 1, invoked 2 and completed.
C3_Witness ==
    /\ pc = "ALL_DONE"
    /\ RunKeys = <<1, 2>>
    /\ check_point = <<1>>
    /\ invoked = <<2>>

\* C4: when the engine or the result reduction raises for key k the run ends
\* at once: k is the last key invoked, and the checkpoint file is what the
\* last successful commit wrote and holds neither k nor a later key.
C4_AbortLeavesLastCommit ==
    (/\ pc = "ABORTED"
     /\ error.kind \in {"engine", "postprocess"}
     /\ checkpoint_path = "progres"
     /\ OnlyEngineFaults)
        => /\ invoked # <<>>
           /\ invoked[Len(invoked)] = error.key
           /\ files["progres"] = lastCommit
           /\ error.key \notin Range(files["progres"].keys)
           /\ KeysAfter(RunKeys, error.key) \cap Range(files["progres"].keys) = {}

\* C5: after a crash during a commit the checkpoint file is the complete
\* previous content or the complete new content.
C5_CommitAtomic ==
    pc = "CRASHED"
        => files["progres"] \in {lastCommit, [st |-> "ok", keys |-> progress]}

\* C6: the two keys of every pair the loop works on are equal, and a run
\* that completes has left no record unpaired.
C6_KeyMismatchIsError ==
    /\ InIteration => CurDsp.k = CurPhv.k
    /\ pc = "ALL_DONE" => unpaired = {}

\* C7: loading the checkpoint never raises: an absent path and an unreadable
\* file both give the empty checkpoint and the run starts.
C7_LoadNeverRaises == pc # "LOAD_FAILED"

----
\* Membership check: point_in_polygon against closed-polygon membership,
\* over every simple polygon of a bounded integer grid.

GridMax == 2

Grid == 0..GridMax

\* Test points: the grid and one ring around it, and the points of the
\* documented example.
ExampleSquare == << <<0, 0>>, <<4, 0>>, <<4, 4>>, <<0, 4>> >>
ExamplePoints == {<<2, 2>>, <<2, 0>>, <<5, 5>>}
ProbePoints == (((-1)..(GridMax + 1)) \X ((-1)..(GridMax + 1))) \cup ExamplePoints

\* Number of vertices of the polygons tried.
PolySizes == {3, 4}

Sign(x) == IF x > 0 THEN 1 ELSE IF x < 0 THEN -1 ELSE 0

\* Orientation of c against the line from a to b.
Orient(a, b, c) == Sign((b[1] - a[1]) * (c[2] - a[2]) - (b[2] - a[2]) * (c[1] - a[1]))

\* Reference: p lies on the closed segment from a to b.
OnSegmentRef(p, a, b) ==
    /\ Orient(a, b, p) = 0
    /\ Min(a[1], b[1]) <= p[1] /\ p[1] <= -Min(-a[1], -b[1])
    /\ Min(a[2], b[2]) <= p[2] /\ p[2] <= -Min(-a[2], -b[2])

\* The closed segments a-b and c-d meet.
SegmentsMeet(a, b, c, d) ==
    \/ /\ Orient(a, b, c) # Orient(a, b, d)
       /\ Orient(c, d, a) # Orient(c, d, b)
       /\ Orient(a, b, c) * Orient(a, b, d) <= 0
       /\ Orient(c, d, a) * Orient(c, d, b) <= 0
    \/ OnSegmentRef(c, a, b) \/ OnSegmentRef(d, a, b)
    \/ OnSegmentRef(a, c, d) \/ OnSegmentRef(b, c, d)

NextIdx(polygon, i) == (i % Len(polygon)) + 1

\* A simple polygon: distinct vertices, neighbouring edges meet only in the
\* vertex they share, other edges do not meet.
IsSimple(polygon) ==
    LET n == Len(polygon) IN
    /\ \A i, j \in 1..n : i # j => polygon[i] # polygon[j]
    /\ \A i, j \in 1..n : i < j =>
          LET a == polygon[i]
              b == polygon[NextIdx(polygon, i)]
              c == polygon[j]
              d == polygon[NextIdx(polygon, j)]
          IN  IF j = i + 1
              THEN ~OnSegmentRef(a, c, d) /\ ~OnSegmentRef(d, a, b)
              ELSE IF i = 1 /\ j = n
                   THEN ~OnSegmentRef(b, c, d) /\ ~OnSegmentRef(c, a, b)
                   ELSE ~SegmentsMeet(a, b, c, d)

\* Quadrant of a nonzero vector, counted counter-clockwise.
Quadrant(dx, dy) ==
    IF dx > 0 /\ dy >= 0 THEN 0
    ELSE IF dx <= 0 /\ dy > 0 THEN 1
    ELSE IF dx < 0 /\ dy <= 0 THEN 2
    ELSE 3

\* Quarter turns around p made by the edge from a to b (p not on it).
QuarterTurns(p, a, b) ==
    LET q == (Quadrant(b[1] - p[1], b[2] - p[2])
              - Quadrant(a[1] - p[1], a[2] - p[2]) + 4) % 4
    IN  IF q = 0 THEN 0
        ELSE IF q = 1 THEN 1
        ELSE IF q = 3 THEN -1
        ELSE 2 * Orient(p, a, b)

RECURSIVE TurnsFrom(_, _, _)
TurnsFrom(polygon, p, i) ==
    IF i > Len(polygon) THEN 0
    ELSE QuarterTurns(p, polygon[i], polygon[NextIdx(polygon, i)])
         + TurnsFrom(polygon, p, i + 1)

\* Reference: p belongs to the closed polygon: it lies on an edge, or the
\* boundary winds around it.
InsideRef(polygon, p) ==
    \/ \E i \in 1..Len(polygon) :
          OnSegmentRef(p, polygon[i], polygon[NextIdx(polygon, i)])
    \/ TurnsFrom(polygon, p, 1) # 0

SimplePolygons ==
    {pg \in UNION {[1..n -> Grid \X Grid] : n \in PolySizes} : IsSimple(pg)}
    \cup {ExampleSquare}

orchIdle ==
    /\ trapezoid = <<>> /\ raw_dsp = <<>> /\ raw_phv = <<>>
    /\ checkpoint_path = "none" /\ files = [p \in Paths |-> AbsentFile]
    /\ run = 0 /\ pc = "NEW" /\ check_point = <<>>
    /\ df_dsp = <<>> /\ df_phv = <<>> /\ idx = 0 /\ progress = <<>>
    /\ initparams = [savepath |-> NoPoint, station |-> NoPoint]
    /\ live = FALSE /\ workspaces = {} /\ outputs = {}
    /\ pending = NoError /\ error = NoError /\ invoked = <<>>
    /\ seenInCheckpoint = {} /\ faults = {} /\ lastCommit = AbsentFile
    /\ persisted = {} /\ commits = 0 /\ unpaired = {}
    /\ artifacts = {} /\ succeeded = {} /\ suppressed = FALSE

\* Vertex lists too short for a polygon: none, one and two vertices.
ShortLists == UNION {[1..n -> Grid] : n \in 0..(MinVertices - 1)}

InitGeom ==
    /\ parg \in SimplePolygons \cup ShortLists
    /\ helper = "none"
    /\ poly = <<>>
    /\ probe = <<>>
    /\ answer = FALSE
    /\ orchIdle /\ filterIdle /\ extentIdle /\ plotIdle

\* PolygonGeoHelper(parg): raises, or stores the polygon (lines 21-23).
ConstructHelper ==
    /\ helper = "none"
    /\ IF HelperRaises(parg)
       THEN helper' = "raised" /\ poly' = <<>>
       ELSE helper' = "ok" /\ poly' = parg
    /\ UNCHANGED <<parg, probe, answer, orchVars, filterVars, extentVars, plotVars>>

\* helper.point_in_polygon(x, y) on a helper holding poly.
TestPoint ==
    /\ helper = "ok"
    /\ probe = <<>>
    /\ \E p \in ProbePoints :
          /\ probe' = p
          /\ answer' = PointInPolygon(poly, p[1], p[2])
    /\ UNCHANGED <<parg, helper, poly, orchVars, filterVars, extentVars, plotVars>>

NextGeom == ConstructHelper \/ TestPoint

SpecGeom == InitGeom /\ [][NextGeom]_vars

\* C8: point_in_polygon returns true exactly for the points of the closed
\* polygon: strictly inside or on an edge or vertex true, strictly outside
\* false, for every simple polygon and test point of the grid.
\* The documented example: (2,2) and (2,0) inside, (5,5) outside.
C8_MembershipCorrect ==
    /\ probe # <<>> => (answer <=> InsideRef(poly, probe))
    /\ (poly = ExampleSquare /\ probe \in ExamplePoints)
          => (answer <=> probe \in {<<2, 2>>, <<2, 0>>})

\* C8 witness: a test point strictly inside whose latitude is that of the
\* vertex its ray passes through.
C8_Witness ==
    /\ poly = << <<0, 0>>, <<2, 1>>, <<0, 2>> >>
    /\ probe = <<1, 1>>
    /\ answer = TRUE

----
\* Extent check: _smart_extent on longitude lists near and away from the
\* antimeridian, in whole degrees.

MaxPad == 2

ExtentLons == {-179, -178, 0, 20, 179}

ExtentPivots == {0, 90, 180}

InitExtent ==
    /\ elons \in UNION {[1..n -> ExtentLons] : n \in 2..3}
    /\ elats \in {<<0, 1>>, <<-10, 40, 5>>}
    /\ epad \in 0..MaxPad
    /\ epivot \in ExtentPivots
    /\ extent = <<>>
    /\ orchIdle /\ geomIdle /\ filterIdle /\ plotIdle

\* self._smart_extent(lons, lats, extent_pad_deg, central_longitude)
ComputeExtent ==
    /\ extent = <<>>
    /\ extent' = SmartExtent(elons, elats, epad, epivot)
    /\ UNCHANGED <<elons, elats, epad, epivot, orchVars, geomVars, filterVars, plotVars>>

NextExtent == ComputeExtent

SpecExtent == InitExtent /\ [][NextExtent]_vars

\* The longitudes lie on both sides of the antimeridian, within 10 degrees.
Straddles(lons) ==
    /\ \A i \in DOMAIN lons : Abs(lons[i]) >= 170
    /\ \E i \in DOMAIN lons : lons[i] > 0
    /\ \E i \in DOMAIN lons : lons[i] < 0

\* The width of the arc across the antimeridian that holds the longitudes.
ArcAcross(lons) ==
    LET east == {lons[i] : i \in {i \in DOMAIN lons : lons[i] > 0}}
        west == {lons[i] + 360 : i \in {i \in DOMAIN lons : lons[i] < 0}}
    IN  (CHOOSE x \in west : \A y \in west : x >= y)
        - (CHOOSE x \in east : \A y \in east : x <= y)

\* C9: for longitudes that straddle the antimeridian the returned longitude
\* span is the width of their arc plus 2*pad (2 + 2*pad for 179 and -179),
\* whatever reference longitude is passed.
C9_AntimeridianSpan ==
    (extent # <<>> /\ Straddles(elons))
        => extent[2] - extent[1] = ArcAcross(elons) + 2 * epad

----
\* Filter check: filter_dict applied once and twice.

MaxItems == 2

Triangle == << <<0, 0>>, <<4, 0>>, <<0, 4>> >>

FilterPolygons == {ExampleSquare, Triangle}

\* Records: inside, on an edge, outside, a numeric string, a string that is
\* no number, a record without latitude.
FilterVals ==
    { <<Arr, Arr, Num(2), Num(2)>>,
      <<Arr, Arr, Num(3), Num(0)>>,
      <<Arr, Arr, Num(5), Num(5)>>,
      <<Arr, Arr, [t |-> "numstr", v |-> 3], Num(1)>>,
      <<Arr, Arr, [t |-> "str", v |-> 0], Num(2)>>,
      <<Arr, Arr, Num(2)>> }

DistinctKeySeqs ==
    {ks \in UNION {[1..n -> 1..MaxItems] : n \in 0..MaxItems} :
        \A i, j \in DOMAIN ks : i # j => ks[i] # ks[j]}

InitFilter ==
    /\ poly \in FilterPolygons
    /\ parg = poly
    /\ helper = "ok"
    /\ \E ks \in DistinctKeySeqs : \E vs \in [DOMAIN ks -> FilterVals] :
          fdata = [i \in DOMAIN ks |-> [k |-> ks[i], vals |-> vs[i]]]
    /\ fskip \in BOOLEAN
    /\ fonce = <<>>
    /\ ftwice = <<>>
    /\ probe = <<>> /\ answer = FALSE
    /\ orchIdle /\ extentIdle /\ plotIdle

\* inside_only = helper.filter_dict(data, skip_invalid)
FilterOnce ==
    /\ fonce = <<>>
    /\ fonce' = FilterDict(poly, fdata, fskip)
    /\ UNCHANGED <<geomVars, fdata, fskip, ftwice, orchVars, extentVars, plotVars>>

\* helper.filter_dict(inside_only, skip_invalid), when the first call returned
FilterAgain ==
    /\ fonce # <<>>
    /\ ~fonce.raised
    /\ ftwice = <<>>
    /\ ftwice' = FilterDict(poly, fonce.out, fskip)
    /\ UNCHANGED <<geomVars, fdata, fskip, fonce, orchVars, extentVars, plotVars>>

NextFilter == FilterOnce \/ FilterAgain

SpecFilter == InitFilter /\ [][NextFilter]_vars

\* C10: filter_dict(filter_dict(records)) equals filter_dict(records): the
\* same keys, values and key order.
C10_FilterIdempotent ==
    ftwice # <<>> => (~ftwice.raised /\ ftwice.out = fonce.out)

\* C10 witness: the second call ran on a result of a first call that had
\* kept one of two entries and dropped the other.
C10_Witness ==
    /\ ftwice # <<>>
    /\ Len(fonce.out) = 1
    /\ Len(fdata) = 2
    /\ ftwice.out = fonce.out

\* The items of data whose coordinates are readable and which
\* point_in_polygon accepts, in the order of data.
PassingItems(polygon, data) ==
    SelectSeq(data, LAMBDA it :
        /\ CoordsOk(it.vals)
        /\ PointInPolygon(polygon, Float(it.vals[LonIndex + 1]),
                          Float(it.vals[LatIndex + 1])))

UnreadableItems(data) == {i \in DOMAIN data : ~CoordsOk(data[i].vals)}

\* C11: filter_dict keeps exactly the entries whose coordinates pass
\* point_in_polygon. With skip_invalid true an entry with unreadable
\* coordinates is dropped and the others are still filtered; with
\* skip_invalid false such an entry makes the call raise and no result is
\* returned.
C11_FilterKeepsPassing ==
    fonce # <<>> =>
        IF ~fskip /\ UnreadableItems(fdata) # {}
        THEN fonce.raised /\ fonce.out = <<>>
        ELSE ~fonce.raised /\ fonce.out = PassingItems(poly, fdata)

\* C11 witness: skip_invalid false, the first entry lies inside the polygon
\* and the second has unreadable coordinates: the call raised.
C11_Witness ==
    /\ fonce # <<>>
    /\ ~fskip
    /\ Len(fdata) = 2
    /\ PassingItems(poly, fdata) # <<>>
    /\ UnreadableItems(fdata) = {2}
    /\ fonce.raised

----
\* Properties of the batch run, continued.

\* C12: when save_distribution fails (the model matrix is missing or
\* malformed) the point is aborted: from the failure to the end of the run
\* the checkpoint file is not written, so the key of the point is not
\* committed, and the files of the engine in the workspace stay as they are.
C12_FailedReductionKeepsDisk ==
    /\ [](pending.kind = "postprocess" =>
            /\ pc = "RELEASE"
            /\ commits > 0 => pending.key \notin Range(lastCommit.keys))
    /\ [][((pc = "POSTPROCESS" /\ pending'.kind = "postprocess")
           \/ pending.kind = "postprocess")
          => /\ files' = files
             /\ artifacts' = artifacts
             /\ pc' \in {"RELEASE", "ABORTED"}]_vars

\* C12 witness: a run ended by a failed save_distribution, with the files of
\* the engine of that point on disk and a commit earlier in the same run.
C12_Witness ==
    /\ pc = "ABORTED"
    /\ error.kind = "postprocess"
    /\ initparams.savepath \in artifacts
    /\ commits = 1
    /\ files["progres"].st = "ok"
    /\ error.key \notin Range(files["progres"].keys)

----
\* Properties of the helper's construction.

\* C13: constructing the helper with fewer than three vertices (none, one
\* or two) raises and leaves no helper to filter with; with three or more
\* the construction succeeds and the helper holds the polygon.
C13_ShortPolygonRejected ==
    helper # "none" =>
        IF Len(parg) \in {0, 1, 2}
        THEN helper = "raised" /\ poly = <<>> /\ probe = <<>>
        ELSE helper = "ok" /\ poly = parg

\* C13 witness: a polygon of two vertices was refused.
C13_Witness ==
    /\ Len(parg) = 2
    /\ helper = "raised"

----
\* Properties of the batch run: commit order, release, shared parameters.

\* C14: every key in the checkpoint file that invert writes has had both
\* mp_inversion and save_distribution return before the commit that
\* persisted it; a key whose work has not completed (in flight, or failed)
\* is not in the file.
C14_CommitAfterSuccess ==
    /\ files["progres"].st = "ok" => Range(files["progres"].keys) \subseteq succeeded
    /\ Range(lastCommit.keys) \subseteq succeeded
    /\ (pc \in {"PREPARE", "INVOKE", "POSTPROCESS"} /\ CurDsp.k \notin succeeded)
           => CurDsp.k \notin Range(files["progres"].keys)

\* C14 witness: the second commit of a run has just been written; both keys
\* are in the file.
C14_Witness ==
    /\ pc = "RELEASE"
    /\ pending = NoError
    /\ commits = 2
    /\ files["progres"] = [st |-> "ok", keys |-> <<1, 2>>]

\* C15: for every iteration that is not skipped the release sequence (the
\* finally block) has run when the iteration is left, whether PREPARE,
\* INVOKE or POSTPROCESS failed or the iteration succeeded: no per-iteration
\* object is held when the next key starts or when the run has ended.
C15_ReleaseOnEveryExit ==
    pc \in {"ITERATE", "ALL_DONE", "ABORTED"} => ~live

\* C16: processing a point leaves the shared parameters as they were: the
\* workspace path and the point identifier are passed as call parameters and
\* are never stored into self.initparams.
C16_SharedParamsUntouched ==
    initparams = [savepath |-> NoPoint, station |-> NoPoint]

\* The loop takes a pair whose key is in the loaded checkpoint.
TakesDoneKey ==
    /\ pc = "ITERATE"
    /\ idx < ZipLen
    /\ idx' = idx + 1
    /\ df_dsp[idx + 1].k \in Range(check_point)

\* C17: when the key of the pair is in the loaded checkpoint the iteration
\* moves on to the next key and changes nothing: no workspace is created,
\* the engine is not invoked, the shared parameters, the list of completed
\* keys and the checkpoint file stay as they are.
C17_SkipHasNoEffect ==
    [][TakesDoneKey =>
          /\ pc' = "ITERATE"
          /\ UNCHANGED <<workspaces, artifacts, outputs, invoked, initparams,
                         live, progress, files, check_point, error>>]_vars

\* C17 witness: the pair just taken was skipped, after a point was
\* processed in an earlier run.
C17_Witness ==
    /\ pc = "ITERATE"
    /\ idx >= 1
    /\ df_dsp[idx].k \in Range(check_point)
    /\ workspaces # {}
    /\ invoked = <<>>
    /\ progress = <<>>

\* C18: the checkpoint is committed to the file at checkpoint_path, the file
\* that is loaded at start: for every checkpoint_path given, the keys of a
\* completed commit are readable from that path.
C18_CommitToCheckpointPath ==
    (checkpoint_path # "none" /\ commits > 0 /\ pc \notin {"WRITING", "CRASHED"})
        => /\ files[checkpoint_path].st = "ok"
           /\ Range(lastCommit.keys) \subseteq Range(files[checkpoint_path].keys)

\* The keys of the input after the optional filter.
InputKeys == {Filtered(trapezoid, raw_dsp)[i].k :
                 i \in DOMAIN Filtered(trapezoid, raw_dsp)}

\* invert never goes back: the pairs are taken in order, one more each time.
NeverRevisits ==
    [][pc' \in {"ITERATE", "PREPARE", "INVOKE", "POSTPROCESS", "CHECKPOINT",
                "WRITING", "RELEASE"} => idx' \in {idx, idx + 1}]_vars

\* C19: a run ends as ALL_DONE or as ABORTED with the error; it ends as
\* ALL_DONE only when every key of the filtered input is in the loaded
\* checkpoint or was processed and committed during the run.
C19_AllDoneCoversInput ==
    pc = "ALL_DONE" =>
        \A k \in InputKeys :
            \/ k \in Range(check_point)
            \/ /\ k \in Range(invoked)
               /\ k \in Range(lastCommit.keys)

\* The steps of a run in progress: every step but the start of a new
\* process and the death of the process.
RunStep ==
    \/ RunInvStart \/ LoopEnd \/ Skip \/ Start \/ Prepare \/ PrepareFail
    \/ Invoke \/ InvokeFail \/ Postprocess \/ PostprocessFail
    \/ CommitBegin \/ CommitEnd \/ Release

\* The single control thread keeps running, and every call it makes
\* returns or raises.
SpecFair == Spec /\ WF_vars(RunStep)

\* A run that has started ends.
RunTerminates == (pc = "INIT") ~> (pc \in {"ALL_DONE", "ABORTED", "CRASHED"})

----
\* The batch plotter: process_config and main (batch_bayhunter_plots.py).
\* A file name is the sequence of its pieces, "a_config.pkl" being
\* <<"a", "_config", ".pkl">>; an output file is <<base, kind>>.

MaxConfigs == 2
MaxPlotRuns == 2

Kinds == {"bestfit", "bestmodel"}

\* lines 55-59: the base name of a config file.
Base(name) ==
    IF Len(name) >= 2 /\ name[Len(name) - 1] = "_config" /\ name[Len(name)] = ".pkl"
    THEN SubSeq(name, 1, Len(name) - 2)
    ELSE SelectSeq(name, LAMBDA piece : piece \notin {".pkl", "_config"})

\* A test that skips as soon as one of the two files exists.
ShouldSkipEither(overwrite, fitExists, modelExists) ==
    ~overwrite /\ (fitExists \/ modelExists)

\* line 63: not overwrite and out_bestfit.exists() and out_bestmodel.exists()
ShouldSkip(overwrite, fitExists, modelExists) ==
    ~overwrite /\ fitExists /\ modelExists

\* The config files that may lie under root, in sorted order: two points
\* with the same file name in different folders, and one found with
\* --suffix .pkl.
ConfigPaths ==
    << [dir |-> "p1", name |-> <<"a", "_config", ".pkl">>],
       [dir |-> "p1", name |-> <<"b", ".pkl">>],
       [dir |-> "p2", name |-> <<"a", "_config", ".pkl">>],
       [dir |-> "p2", name |-> <<"b", "_config", "_config", ".pkl">>] >>

\* sorted(configs), line 114: the paths found, in increasing order.
ConfigLists ==
    {[i \in DOMAIN ix |-> ConfigPaths[ix[i]]] :
        ix \in {jx \in UNION {[1..n -> DOMAIN ConfigPaths] : n \in 0..MaxConfigs} :
                   \A i, j \in DOMAIN jx : i < j => jx[i] < jx[j]}}

OutFiles == {<<Base(ConfigPaths[i].name), k>> : i \in DOMAIN ConfigPaths, k \in Kinds}

InitPlots ==
    /\ pcfgs \in ConfigLists
    /\ pdfs \in SUBSET OutFiles
    /\ poverwrite = FALSE
    /\ pdry = FALSE
    /\ ppc = "idle"
    /\ prun = 0
    /\ plog = <<>>
    /\ pprev = <<>>
    /\ orchIdle /\ geomIdle /\ filterIdle /\ extentIdle

\* main, lines 82-113: the arguments are parsed and the configs found; a
\* dry run prints and returns, otherwise the output directory is made.
PlotMain ==
    /\ ppc \in {"idle", "done"}
    /\ prun < MaxPlotRuns
    /\ prun' = prun + 1
    /\ poverwrite' \in BOOLEAN
    /\ pdry' \in BOOLEAN
    /\ ppc' = IF pdry' THEN "done" ELSE "loop"
    /\ pprev' = plog
    /\ plog' = <<>>
    /\ UNCHANGED <<pcfgs, pdfs, orchVars, geomVars, filterVars, extentVars>>

\* The config the loop of main is at.
CurConfig == pcfgs[Len(plog) + 1]

\* One call of the record of process_config calls.
Call(result, fit, model, wrote) ==
    [base |-> Base(CurConfig.name), fit |-> fit, model |-> model,
     result |-> result, wrote |-> wrote]

\* lines 114-118 with process_config, lines 47-79: the call returns early,
\* or renders and saves the two figures; PlotFromStorage, a plot or a
\* savefig may raise, before the first file is written or between the two,
\* and main prints the error and goes on.
ProcessConfig ==
    /\ ppc = "loop"
    /\ Len(plog) < Len(pcfgs)
    /\ LET base  == Base(CurConfig.name)
           fit   == <<base, "bestfit">> \in pdfs
           model == <<base, "bestmodel">> \in pdfs
       IN  IF ShouldSkip(poverwrite, fit, model)
           THEN /\ plog' = Append(plog, Call("skipped", fit, model, {}))
                /\ pdfs' = pdfs
           ELSE \/ /\ plog' = Append(plog, Call("done", fit, model, Kinds))
                   /\ pdfs' = pdfs \cup {<<base, "bestfit">>, <<base, "bestmodel">>}
                \/ /\ plog' = Append(plog, Call("raised", fit, model, {}))
                   /\ pdfs' = pdfs
                \/ /\ plog' = Append(plog, Call("raised", fit, model, {"bestfit"}))
                   /\ pdfs' = pdfs \cup {<<base, "bestfit">>}
    /\ UNCHANGED <<pcfgs, poverwrite, pdry, ppc, prun, pprev, orchVars,
                   geomVars, filterVars, extentVars>>

\* The loop of main is over.
PlotMainEnd ==
    /\ ppc = "loop"
    /\ Len(plog) = Len(pcfgs)
    /\ ppc' = "done"
    /\ UNCHANGED <<pcfgs, pdfs, poverwrite, pdry, prun, plog, pprev, orchVars,
                   geomVars, filterVars, extentVars>>

NextPlots == PlotMain \/ ProcessConfig \/ PlotMainEnd

SpecPlots == InitPlots /\ [][NextPlots]_vars

\* Every call of the record wrote both files.
WroteBothForAll(log) ==
    /\ Len(log) = Len(pcfgs)
    /\ \A i \in DOMAIN log : log[i].wrote = Kinds

\* C20: process_config with overwrite false renders nothing and writes no
\* file when both <base>_bestfit.pdf and <base>_bestmodel.pdf exist;
\* otherwise (overwrite true, or one of the two missing) it renders, and
\* when the renders and saves return it has written both files. So a second
\* invocation without --overwrite writes no file when the first one wrote
\* both outputs for every config.
C20_SkipOnlyWhenBothExist ==
    /\ \A i \in DOMAIN plog :
          /\ plog[i].result = "skipped"
                <=> (~poverwrite /\ plog[i].fit /\ plog[i].model)
          /\ plog[i].result = "skipped" => plog[i].wrote = {}
          /\ plog[i].result = "done" => plog[i].wrote = Kinds
    /\ (prun >= 2 /\ ~poverwrite /\ WroteBothForAll(pprev))
          => \A i \in DOMAIN plog : plog[i].wrote = {}

\* C20 witness: the first invocation wrote both files for two configs, the
\* second one, without --overwrite, has gone through both and skipped them.
C20_Witness ==
    /\ prun = 2
    /\ ~poverwrite
    /\ ppc = "done"
    /\ Len(pcfgs) = 2
    /\ WroteBothForAll(pprev)
    /\ Len(plog) = 2
    /\ \A i \in DOMAIN plog : plog[i].result = "skipped"

----
\* Properties of save_distribution and of the workspace names.

\* C21: an exception of save_plots is suppressed: the point and the run go
\* on, <name>_m.txt of the point is written and the key of the point is
\* committed; an exception of save_final_distribution or of the read of the
\* model matrix leaves save_distribution and ends the run.
C21_PlotFailureSuppressed ==
    /\ []((suppressed /\ pc # "CRASHED") =>
            /\ pc \in {"CHECKPOINT", "WRITING", "RELEASE"}
            /\ pending = NoError
            /\ <<initparams.station, CurDsp.k>> \in outputs
            /\ pc = "RELEASE" =>
                  /\ files["progres"].st = "ok"
                  /\ CurDsp.k \in Range(files["progres"].keys))
    /\ [][(suppressed /\ pc = "RELEASE") => pc' = "ITERATE"]_vars
    /\ [][(pending.kind = "postprocess" /\ pc = "RELEASE")
            => (pc' = "ABORTED" /\ error'.kind = "postprocess")]_vars

\* C21 witness: save_plots raised for the second point of a run, the summary
\* file of the point is written and its key has been committed.
C21_Witness ==
    /\ suppressed
    /\ pc = "RELEASE"
    /\ commits = 2
    /\ <<initparams.station, CurDsp.k>> \in outputs
    /\ CurDsp.k \in Range(files["progres"].keys)

\* sub is data with some items left out: the items kept are in the order of
\* data and each is the item of data, key and record.
IsSubMapping(sub, data) ==
    \E f \in [DOMAIN sub -> DOMAIN data] :
        /\ \A i, j \in DOMAIN sub : i < j => f[i] < f[j]
        /\ \A i \in DOMAIN sub : sub[i] = data[f[i]]

\* C22: filter_dict leaves its input mapping as it was and returns a mapping
\* whose keys are keys of the input, in the order of the input, each with
\* the record of the input unmodified; the polygon of the helper is the same
\* after any of the calls.
C22_FilterFrame ==
    /\ []((fonce # <<>> /\ ~fonce.raised) => IsSubMapping(fonce.out, fdata))
    /\ []((ftwice # <<>> /\ ~ftwice.raised) => IsSubMapping(ftwice.out, fonce.out))
    /\ [][fdata' = fdata /\ poly' = poly]_vars

\* C22 witness: of two entries the first was dropped and the second, whose
\* longitude is a numeric string, was kept; two calls have been made.
C22_Witness ==
    /\ ftwice # <<>>
    /\ Len(fdata) = 2
    /\ Len(fonce.out) = 1
    /\ fonce.out[1] = fdata[2]
    /\ fdata[2].vals[LonIndex + 1].t = "numstr"

\* Two records whose latitude and longitude print the same with two decimals.
SameFormatted(v, w) ==
    /\ Fmt2(Float(v[LatIndex + 1])) = Fmt2(Float(w[LatIndex + 1]))
    /\ Fmt2(Float(v[LonIndex + 1])) = Fmt2(Float(w[LonIndex + 1]))

\* The names the records of the dispersion dataset print to.
FormattedNames ==
    {<<Fmt2(Float(raw_dsp[i].vals[LatIndex + 1])),
       Fmt2(Float(raw_dsp[i].vals[LonIndex + 1]))>> : i \in DOMAIN raw_dsp}

\* C23: the workspace, the point identifier and <pointId>_m.txt of a point
\* depend only on the 2-decimal formatting of its latitude and longitude:
\* when the commit of a point is complete, every key processed earlier in the
\* run whose coordinates format to the same strings has used the same
\* workspace, its results are in no output file any more (the file holds
\* those of the later point), and both keys are in the checkpoint file.
C23_SameNameSharesWorkspace ==
    /\ workspaces \subseteq FormattedNames
    /\ (pc = "RELEASE" /\ pending = NoError) =>
          \A i \in 1..(Len(progress) - 1) :
              SameFormatted(raw_dsp[progress[i]].vals, CurDsp.vals) =>
                  /\ initparams.savepath \in workspaces
                  /\ initparams.station = initparams.savepath
                  /\ \A o \in outputs : o[2] # progress[i]
                  /\ <<initparams.station, CurDsp.k>> \in outputs
                  /\ {progress[i], CurDsp.k} \subseteq Range(files["progres"].keys)

\* C23 witness: keys 1 and 2 lie at different coordinates that format to the
\* same name; both are committed and the one output file of that name holds
\* the results of key 2.
C23_Witness ==
    /\ pc = "RELEASE"
    /\ pending = NoError
    /\ progress = <<1, 2>>
    /\ raw_dsp[1].vals # raw_dsp[2].vals
    /\ SameFormatted(raw_dsp[1].vals, raw_dsp[2].vals)
    /\ outputs = {<<initparams.station, 2>>}
    /\ Cardinality(workspaces) = 1
    /\ files["progres"].keys = <<1, 2>>

====
